---- MODULE Spec2Model ----
(***************************************************************************)
(* Buoyancy and tilt model of the barge simulation (src/script.js):        *)
(* classes Float, Item and Barge, and the input handlers that drive them.  *)
(*                                                                         *)
(* JavaScript numbers are modelled as decimal fixed-point integers with    *)
(* Digits fractional digits (the value v stands for v / Scale), plus the   *)
(* value NaN, which every arithmetic operator propagates as IEEE-754 does. *)
(* Products and quotients are rounded to the nearest representable value.  *)
(***************************************************************************)
EXTENDS Integers, Sequences, FiniteSets, TLC

\* ------------------------------------------------------------------------
\* Bounds of the model
\* ------------------------------------------------------------------------

\* Fractional decimal digits kept by the fixed-point numbers.
Digits == 3

\* Most pontoons the "add float" button is pressed for.
MaxFloats == 2

\* Most items the "add item" button is pressed for.
MaxItems == 2

\* Most handler runs (frames, drags, edits, button presses) of a behaviour.
MaxSteps == 3

Scale == 10 ^ Digits

\* ------------------------------------------------------------------------
\* Numbers
\* ------------------------------------------------------------------------

\* The result of parseFloat on text that is not a number, and of every
\* arithmetic operation on it.
NaN == -2147483647

isNaN(a) == a = NaN

\* The integer n, and the decimal n / 10^d, as numbers.
Num(n) == n * Scale
Dec(n, d) == (n * Scale) \div (10 ^ d)

Abs(a) == IF a < 0 THEN -a ELSE a
Sgn(a) == IF a < 0 THEN -1 ELSE 1

Neg(a) == IF isNaN(a) THEN NaN ELSE -a
Add(a, b) == IF isNaN(a) \/ isNaN(b) THEN NaN ELSE a + b
Sub(a, b) == IF isNaN(a) \/ isNaN(b) THEN NaN ELSE a - b

\* |a| * |b| / Scale, rounded, without forming the full product.
MulAbs(a, b) ==
    LET a1 == a \div Scale
        a0 == a % Scale
        b1 == b \div Scale
        b0 == b % Scale
    IN  a1 * b1 * Scale + a1 * b0 + a0 * b1 + (a0 * b0 + Scale \div 2) \div Scale

Mul(a, b) ==
    IF isNaN(a) \/ isNaN(b) THEN NaN
    ELSE Sgn(a) * Sgn(b) * MulAbs(Abs(a), Abs(b))

\* The k fractional digits of r / b, for 0 <= r < b.
RECURSIVE DivDigits(_, _, _)
DivDigits(r, b, k) ==
    IF k = 0 THEN 0
    ELSE LET t == r * 10
         IN  (t \div b) * (10 ^ (k - 1)) + DivDigits(t % b, b, k - 1)

\* What is left of r after k fractional digits of r / b.
RECURSIVE DivRest(_, _, _)
DivRest(r, b, k) == IF k = 0 THEN r ELSE DivRest((r * 10) % b, b, k - 1)

\* |a| * Scale / |b|, rounded, by long division.
DivAbs(a, b) ==
    (a \div b) * Scale + DivDigits(a % b, b, Digits)
        + (IF 2 * DivRest(a % b, b, Digits) >= b THEN 1 ELSE 0)

\* a / b for b # 0 (no divisor of the model is ever 0).
Div(a, b) ==
    IF isNaN(a) \/ isNaN(b) THEN NaN
    ELSE Sgn(a) * Sgn(b) * DivAbs(Abs(a), Abs(b))

\* Comparisons: false when either side is NaN.
Gt(a, b) == ~isNaN(a) /\ ~isNaN(b) /\ a > b
Le(a, b) == ~isNaN(a) /\ ~isNaN(b) /\ a <= b

\* Math.max and Math.min: NaN when either argument is NaN.
MathMax(a, b) == IF isNaN(a) \/ isNaN(b) THEN NaN ELSE IF a > b THEN a ELSE b
MathMin(a, b) == IF isNaN(a) \/ isNaN(b) THEN NaN ELSE IF a < b THEN a ELSE b

\* Math.sin and Math.cos by their Taylor polynomials (the angles of the model
\* stay below 1 radian, where the remainder is below the resolution).
MathSin(a) ==
    IF isNaN(a) THEN NaN
    ELSE LET a2 == Mul(a, a)
             a3 == Mul(a2, a)
             a5 == Mul(a3, a2)
         IN  Add(Sub(a, Div(a3, Num(6))), Div(a5, Num(120)))

MathCos(a) ==
    IF isNaN(a) THEN NaN
    ELSE LET a2 == Mul(a, a)
             a4 == Mul(a2, a2)
         IN  Add(Sub(Num(1), Div(a2, Num(2))), Div(a4, Num(24)))

Vector3(x, y, z) == [x |-> x, y |-> y, z |-> z]

\* ------------------------------------------------------------------------
\* class Float
\* ------------------------------------------------------------------------

waterDensity == Dec(624, 1)

\* new Float(id): the mesh starts at the origin, unrotated.
Float(id) ==
    [ id |-> id,
      width |-> Num(20),
      height |-> Num(7),
      depth |-> Num(10),
      weight |-> Num(20000),
      position |-> Vector3(0, 0, 0),
      rotation |-> [x |-> 0, z |-> 0],
      restPosition |-> Vector3(0, 0, 0) ]

calculateDraft(float) ==
    LET volumeNeeded == Div(float.weight, waterDensity)
    IN  Div(volumeNeeded, Mul(float.width, float.depth))

\* ------------------------------------------------------------------------
\* class Item
\* ------------------------------------------------------------------------

ItemHeight == Num(2)

\* new Item(): the mesh starts at the origin, unrotated.
Item == [ position |-> Vector3(0, 0, 0), rotation |-> [x |-> 0, z |-> 0] ]

\* ------------------------------------------------------------------------
\* class Barge
\* ------------------------------------------------------------------------

\* The loop's three accumulators after the first n pontoons, each summed
\* left to right from 0.
RECURSIVE totalArea(_, _)
totalArea(floats, n) ==
    IF n = 0 THEN 0
    ELSE Add(totalArea(floats, n - 1), Mul(floats[n].width, floats[n].depth))

RECURSIVE weightedX(_, _)
weightedX(floats, n) ==
    IF n = 0 THEN 0
    ELSE Add(weightedX(floats, n - 1),
             Mul(floats[n].position.x, Mul(floats[n].width, floats[n].depth)))

RECURSIVE weightedZ(_, _)
weightedZ(floats, n) ==
    IF n = 0 THEN 0
    ELSE Add(weightedZ(floats, n - 1),
             Mul(floats[n].position.z, Mul(floats[n].width, floats[n].depth)))

calculateCenterFlotation(b) ==
    IF Len(b.floats) = 0 THEN b
    ELSE LET n == Len(b.floats)
         IN  [b EXCEPT !.centerFlotation =
                 Vector3(Div(weightedX(b.floats, n), totalArea(b.floats, n)),
                         0,
                         Div(weightedZ(b.floats, n), totalArea(b.floats, n)))]

calculateArea(b) == totalArea(b.floats, Len(b.floats))

\* addFloat issuing the id without advancing nextFloatId.
addFloat_sameId(b) ==
    LET float == Float(b.nextFloatId)
        draft == calculateDraft(float)
        yPosition == Add(Neg(draft), Div(float.height, Num(2)))
        n == Len(b.floats)
        lastFloat == b.floats[n]
        xPosition == IF n > 0
                     THEN Add(Add(lastFloat.position.x, Div(lastFloat.width, Num(2))),
                              Div(float.width, Num(2)))
                     ELSE 0
        zPosition == IF n > 0 THEN lastFloat.position.z ELSE 0
        placed == [float EXCEPT
                     !.position = Vector3(xPosition, yPosition, zPosition),
                     !.restPosition = Vector3(xPosition, yPosition, zPosition)]
    IN  calculateCenterFlotation([b EXCEPT !.floats = Append(b.floats, placed)])

addFloat(b) ==
    LET float == Float(b.nextFloatId)
        draft == calculateDraft(float)
        yPosition == Add(Neg(draft), Div(float.height, Num(2)))
        n == Len(b.floats)
        lastFloat == b.floats[n]
        xPosition == IF n > 0
                     THEN Add(Add(lastFloat.position.x, Div(lastFloat.width, Num(2))),
                              Div(float.width, Num(2)))
                     ELSE 0
        zPosition == IF n > 0 THEN lastFloat.position.z ELSE 0
        placed == [float EXCEPT
                     !.position = Vector3(xPosition, yPosition, zPosition),
                     !.restPosition = Vector3(xPosition, yPosition, zPosition)]
    IN  calculateCenterFlotation(
            [b EXCEPT !.nextFloatId = b.nextFloatId + 1,
                      !.floats = Append(b.floats, placed)])

addItem(b) ==
    LET float == b.floats[1]
        initialY == Add(Add(float.position.y, Div(float.height, Num(2))),
                        Div(ItemHeight, Num(2)))
        item == [Item EXCEPT !.position =
                    Vector3(b.centerFlotation.x, initialY, b.centerFlotation.z)]
    IN  [b EXCEPT !.items = Append(b.items, item)]

maxTilt == Dec(5, 2)

calculateTilt(b) ==
    IF Len(b.items) > 0
    THEN LET itemPos == b.items[1].position
             offsetX == Sub(itemPos.x, b.centerFlotation.x)
             offsetZ == Sub(itemPos.z, b.centerFlotation.z)
         IN  [b EXCEPT !.tiltX = Neg(Mul(Div(offsetZ, Num(5)), maxTilt)),
                       !.tiltZ = Mul(Div(offsetX, Num(10)), maxTilt)]
    ELSE b

\* One pontoon of applyTiltToFloats: the rest position, relative to the center
\* of flotation, rotated first in the X/Y plane by -tiltZ and then in the Y/Z
\* plane by -tiltX.
tiltFloat(b, float) ==
    LET relativeX == Sub(float.restPosition.x, b.centerFlotation.x)
        relativeZ == Sub(float.restPosition.z, b.centerFlotation.z)
        relativeY == Sub(float.restPosition.y, b.centerFlotation.y)
        cosX == MathCos(Neg(b.tiltX))
        sinX == MathSin(Neg(b.tiltX))
        cosZ == MathCos(Neg(b.tiltZ))
        sinZ == MathSin(Neg(b.tiltZ))
        tempX == Sub(Mul(relativeX, cosZ), Mul(relativeY, sinZ))
        tempY == Add(Mul(relativeX, sinZ), Mul(relativeY, cosZ))
        tempZ == relativeZ
        newY == Sub(Mul(tempY, cosX), Mul(tempZ, sinX))
        newZ == Add(Mul(tempY, sinX), Mul(tempZ, cosX))
        newX == tempX
    IN  [float EXCEPT
           !.position = Vector3(Add(b.centerFlotation.x, newX),
                                Add(b.centerFlotation.y, newY),
                                Add(b.centerFlotation.z, newZ)),
           !.rotation = [x |-> Neg(b.tiltX), z |-> Neg(b.tiltZ)]]

applyTiltToFloats(b) ==
    [b EXCEPT !.floats = [i \in 1..Len(b.floats) |-> tiltFloat(b, b.floats[i])]]

\* updateItemPositions writing the rotated horizontal coordinates as well.
tiltItem_writesXZ(b, item) ==
    LET float == b.floats[1]
        centerSurfaceY == Add(float.restPosition.y, Div(float.height, Num(2)))
        relativeX == Sub(item.position.x, b.centerFlotation.x)
        relativeZ == Sub(item.position.z, b.centerFlotation.z)
        surfacePoint == Vector3(relativeX,
                                Sub(centerSurfaceY, b.centerFlotation.y),
                                relativeZ)
        cosX == MathCos(Neg(b.tiltX))
        sinX == MathSin(Neg(b.tiltX))
        cosZ == MathCos(Neg(b.tiltZ))
        sinZ == MathSin(Neg(b.tiltZ))
        y1 == Sub(Mul(surfacePoint.y, cosX), Mul(surfacePoint.z, sinX))
        z1 == Add(Mul(surfacePoint.y, sinX), Mul(surfacePoint.z, cosX))
        x1 == surfacePoint.x
        x2 == Sub(Mul(x1, cosZ), Mul(y1, sinZ))
        y2 == Add(Mul(x1, sinZ), Mul(y1, cosZ))
        rotatedSurfaceY == Add(b.centerFlotation.y, y2)
    IN  [item EXCEPT
           !.position = Vector3(Add(b.centerFlotation.x, x2),
                                Add(rotatedSurfaceY, Div(ItemHeight, Num(2))),
                                Add(b.centerFlotation.z, z1)),
           !.rotation = [x |-> Neg(b.tiltX), z |-> Neg(b.tiltZ)]]

\* One item of updateItemPositions: the surface point under the item rotated
\* first in the Y/Z plane by -tiltX and then in the X/Y plane by -tiltZ; only
\* the item's y and rotation are written.
tiltItem(b, item) ==
    LET float == b.floats[1]
        centerSurfaceY == Add(float.restPosition.y, Div(float.height, Num(2)))
        relativeX == Sub(item.position.x, b.centerFlotation.x)
        relativeZ == Sub(item.position.z, b.centerFlotation.z)
        surfacePoint == Vector3(relativeX,
                                Sub(centerSurfaceY, b.centerFlotation.y),
                                relativeZ)
        cosX == MathCos(Neg(b.tiltX))
        sinX == MathSin(Neg(b.tiltX))
        cosZ == MathCos(Neg(b.tiltZ))
        sinZ == MathSin(Neg(b.tiltZ))
        y1 == Sub(Mul(surfacePoint.y, cosX), Mul(surfacePoint.z, sinX))
        x1 == surfacePoint.x
        y2 == Add(Mul(x1, sinZ), Mul(y1, cosZ))
        rotatedSurfaceY == Add(b.centerFlotation.y, y2)
    IN  [item EXCEPT
           !.position.y = Add(rotatedSurfaceY, Div(ItemHeight, Num(2))),
           !.rotation = [x |-> Neg(b.tiltX), z |-> Neg(b.tiltZ)]]

updateItemPositions(b) ==
    [b EXCEPT !.items = [i \in 1..Len(b.items) |-> tiltItem(b, b.items[i])]]

\* update() with the tilt computed before the center of flotation it reads.
update_tiltBeforeCenter(b) ==
    updateItemPositions(applyTiltToFloats(calculateCenterFlotation(calculateTilt(b))))

update(b) ==
    updateItemPositions(applyTiltToFloats(calculateTilt(calculateCenterFlotation(b))))

\* moveItem clamping to the pontoon's edge, without the margin of 1.
moveItem_noMargin(b, itemIndex, x, z) ==
    IF itemIndex < Len(b.items)
    THEN LET mainFloat == b.floats[1]
             halfWidth == Div(mainFloat.width, Num(2))
             halfDepth == Div(mainFloat.depth, Num(2))
             constrainedX == MathMax(Neg(halfWidth), MathMin(halfWidth, x))
             constrainedZ == MathMax(Neg(halfDepth), MathMin(halfDepth, z))
         IN  update([b EXCEPT
                       !.items[itemIndex + 1].position.x = constrainedX,
                       !.items[itemIndex + 1].position.z = constrainedZ])
    ELSE b

\* moveItem(itemIndex, x, z); itemIndex counts from 0.
moveItem(b, itemIndex, x, z) ==
    IF itemIndex < Len(b.items)
    THEN LET mainFloat == b.floats[1]
             halfWidth == Sub(Div(mainFloat.width, Num(2)), Num(1))
             halfDepth == Sub(Div(mainFloat.depth, Num(2)), Num(1))
             constrainedX == MathMax(Neg(halfWidth), MathMin(halfWidth, x))
             constrainedZ == MathMax(Neg(halfDepth), MathMin(halfDepth, z))
         IN  update([b EXCEPT
                       !.items[itemIndex + 1].position.x = constrainedX,
                       !.items[itemIndex + 1].position.z = constrainedZ])
    ELSE b

\* new Barge(scene)
NewBarge ==
    addItem(addFloat(
        [ floats |-> << >>,
          items |-> << >>,
          nextFloatId |-> 1,
          centerFlotation |-> Vector3(0, 0, 0),
          tiltX |-> 0,
          tiltZ |-> 0 ]))

\* ------------------------------------------------------------------------
\* The property panel (showFloatProperties, updateFloatProperties)
\* ------------------------------------------------------------------------

\* What parseFloat reads from the panel's inputs when a change event fires,
\* and whether the focus is in the Y input.
Form(floatLength, floatWidth, floatHeight, floatWeight, floatPosX, floatPosZ, floatPosY, yFocused) ==
    [ floatLength |-> floatLength, floatWidth |-> floatWidth,
      floatHeight |-> floatHeight, floatWeight |-> floatWeight,
      floatPosX |-> floatPosX, floatPosZ |-> floatPosZ,
      floatPosY |-> floatPosY, yFocused |-> yFocused ]

\* The test each of the four attributes passes to be written.
validLength(newLength) == ~isNaN(newLength) /\ Gt(newLength, 0)
validWidth(newWidth) == ~isNaN(newWidth) /\ Gt(newWidth, 0)
validHeight(newHeight) == ~isNaN(newHeight) /\ Gt(newHeight, 0)
\* The weight's test letting 0 through.
validWeight_nonNegative(newWeight) == ~isNaN(newWeight) /\ newWeight >= 0

validWeight(newWeight) == ~isNaN(newWeight) /\ Gt(newWeight, 0)

\* updateFloatProperties() up to its calculateCenterFlotation(): pontoon 0
\* edited from the form and the center of flotation recomputed.
writeFloatProperties(b, form) ==
    LET float == b.floats[1]
        newLength == form.floatLength
        newWidth == form.floatWidth
        newHeight == form.floatHeight
        newWeight == form.floatWeight
        newPosX == form.floatPosX
        newPosZ == form.floatPosZ
        manualYChange == form.yFocused
        okLength == validLength(newLength)
        okWidth == validWidth(newWidth)
        okHeight == validHeight(newHeight)
        okWeight == validWeight(newWeight)
        recalculateY == okLength \/ okWidth \/ okHeight \/ okWeight
        sized == [float EXCEPT
                    !.width = IF okLength THEN newLength ELSE @,
                    !.depth = IF okWidth THEN newWidth ELSE @,
                    !.height = IF okHeight THEN newHeight ELSE @,
                    !.weight = IF okWeight THEN newWeight ELSE @,
                    !.position.x = IF ~isNaN(newPosX) THEN newPosX ELSE @,
                    !.position.z = IF ~isNaN(newPosZ) THEN newPosZ ELSE @]
        yPosition == Add(Neg(calculateDraft(sized)), Div(sized.height, Num(2)))
        newPosY == form.floatPosY
        edited == [sized EXCEPT
                     !.position.y =
                        IF recalculateY /\ ~manualYChange THEN yPosition
                        ELSE IF manualYChange /\ ~isNaN(newPosY) THEN newPosY
                        ELSE @]
    IN  calculateCenterFlotation([b EXCEPT !.floats[1] = edited])

\* updateFloatProperties(): edits pontoon 0 from the form, then update().
updateFloatProperties(b, form) == update(writeFloatProperties(b, form))

\* ------------------------------------------------------------------------
\* The application: the barge and the handlers that act on it
\* ------------------------------------------------------------------------

\* barge: the Barge object; lastOp: the handler that ran last, with its
\* arguments; steps: how many handlers have run.
VARIABLES barge, lastOp, steps

vars == << barge, lastOp, steps >>

Op(name, args) == [op |-> name, args |-> args]

\* Positions <<x, z>> a drag asks moveItem for.
Moves == { << Num(10), Num(0) >>, << Num(3), Num(2) >>, << Num(-25), Num(15) >> }

\* What parseFloat reads from the coordinate inputs <<coordX, coordZ>>.
TypedMoves == { << NaN, Num(0) >>, << Num(5), NaN >>, << Num(5), Num(1) >> }

\* Contents of the property panel when a change event fires.
Forms ==
    { Form(Num(30), NaN, Num(0), Num(-1), NaN, NaN, NaN, FALSE),
      Form(NaN, Num(4), NaN, Num(0), NaN, NaN, NaN, FALSE),
      Form(Num(0), Num(-1), Num(3), NaN, NaN, NaN, NaN, FALSE),
      Form(Num(-1), Num(0), NaN, Num(10000), NaN, NaN, NaN, FALSE),
      Form(Num(1), Num(1), Num(7), Num(20000), Num(0), Num(0), Num(2), FALSE),
      Form(NaN, NaN, NaN, NaN, Num(3), Num(2), NaN, FALSE),
      Form(Num(60), Num(40), Num(7), Num(20000), NaN, NaN, NaN, FALSE),
      Form(NaN, NaN, NaN, NaN, NaN, NaN, Num(1), TRUE),
      Form(Num(20), NaN, NaN, NaN, NaN, NaN, NaN, TRUE) }

Init ==
    /\ barge = NewBarge
    /\ lastOp = Op("construct", << >>)
    /\ steps = 0

\* animate(): one frame.
Animate ==
    /\ steps < MaxSteps
    /\ barge' = update(barge)
    /\ lastOp' = Op("update", << >>)
    /\ steps' = steps + 1

\* barge.moveItem(itemIndex, x, z) with numbers (onMouseMove calls it for item 0).
MoveItem(itemIndex, x, z) ==
    /\ steps < MaxSteps
    /\ barge' = moveItem(barge, itemIndex, x, z)
    /\ lastOp' = Op("moveItem", << itemIndex, x, z >>)
    /\ steps' = steps + 1

\* updateItemPosition(): the coordinate inputs, parsed with parseFloat.
UpdateItemPosition(newX, newZ) ==
    /\ steps < MaxSteps
    /\ barge' = moveItem(barge, 0, newX, newZ)
    /\ lastOp' = Op("moveItem", << 0, newX, newZ >>)
    /\ steps' = steps + 1

\* addNewItem()
AddNewItem ==
    /\ steps < MaxSteps
    /\ Len(barge.items) < MaxItems
    /\ barge' = addItem(barge)
    /\ lastOp' = Op("addItem", << >>)
    /\ steps' = steps + 1

\* addNewFloat()
AddNewFloat ==
    /\ steps < MaxSteps
    /\ Len(barge.floats) < MaxFloats
    /\ barge' = addFloat(barge)
    /\ lastOp' = Op("addFloat", << >>)
    /\ steps' = steps + 1

\* A change event of the property panel.
UpdateFloatProperties(form) ==
    /\ steps < MaxSteps
    /\ barge' = updateFloatProperties(barge, form)
    /\ lastOp' = Op("edit", << form >>)
    /\ steps' = steps + 1

Next ==
    \/ Animate
    \/ \E i \in 0..(MaxItems - 1), m \in Moves : MoveItem(i, m[1], m[2])
    \/ \E m \in TypedMoves : UpdateItemPosition(m[1], m[2])
    \/ AddNewItem
    \/ AddNewFloat
    \/ \E form \in Forms : UpdateFloatProperties(form)

Spec == Init /\ [][Next]_vars

\* ------------------------------------------------------------------------
\* Properties
\* ------------------------------------------------------------------------

\* The last handler ran update(): animate, an edit of the panel, or a
\* moveItem whose index named an item.
Updated ==
    \/ lastOp.op \in {"update", "edit"}
    \/ lastOp.op = "moveItem" /\ lastOp.args[1] < Len(barge.items)

Numeric(b) ==
    /\ \A i \in 1..Len(b.floats) :
          /\ ~isNaN(b.floats[i].position.x)
          /\ ~isNaN(b.floats[i].position.y)
          /\ ~isNaN(b.floats[i].position.z)
    /\ \A i \in 1..Len(b.items) :
          /\ ~isNaN(b.items[i].position.x)
          /\ ~isNaN(b.items[i].position.y)
          /\ ~isNaN(b.items[i].position.z)
    /\ ~isNaN(b.centerFlotation.x)
    /\ ~isNaN(b.centerFlotation.z)
    /\ ~isNaN(b.tiltX)
    /\ ~isNaN(b.tiltZ)

\* C1: update() is idempotent: once update() has run, running it again with
\* no mutation in between leaves the center of flotation, both tilts and
\* every pontoon's and item's position and rotation as they are.
C1_UpdateIdempotent == Updated => update(barge) = barge

\* C2: malformed input never corrupts the state: every item position, every
\* pontoon position, the center of flotation and both tilts are numbers.
C2_NeverNaN == Numeric(barge)

\* The half-extents moveItem clamps to, and the item the last moveItem moved.
HalfWidth == Sub(Div(barge.floats[1].width, Num(2)), Num(1))
HalfDepth == Sub(Div(barge.floats[1].depth, Num(2)), Num(1))
MovedItem == barge.items[lastOp.args[1] + 1].position

\* The last handler was moveItem(index, x, z) with a valid index and numbers.
MovedNumeric ==
    /\ lastOp.op = "moveItem"
    /\ lastOp.args[1] < Len(barge.items)
    /\ ~isNaN(lastOp.args[2])
    /\ ~isNaN(lastOp.args[3])

\* The stored coordinate got lies in [-half, half], is half when more than
\* half was asked for, and is what was asked for when that was inside.
ClampedTo(got, half, asked) ==
    /\ Le(Neg(half), got)
    /\ Le(got, half)
    /\ (Gt(asked, half) => got = half)
    /\ (Le(Neg(half), asked) /\ Le(asked, half) => got = asked)

\* C3 as claimed: for every positive width and depth of pontoon 0, after
\* moveItem(index, x, z) the item's x is clamped to [-(width/2 - 1),
\* width/2 - 1] and its z to [-(depth/2 - 1), depth/2 - 1].
C3_ClampedForEveryWidth ==
    MovedNumeric =>
        /\ ClampedTo(MovedItem.x, HalfWidth, lastOp.args[2])
        /\ ClampedTo(MovedItem.z, HalfDepth, lastOp.args[3])

\* C3 as amended: the clamp holds on an axis when pontoon 0 is at least 2
\* wide (deep) on it; on a narrower pontoon the stored coordinate is
\* 1 - width/2 (1 - depth/2) whatever was asked for.
C3_ClampedWhenWideEnough ==
    MovedNumeric =>
        /\ IF Le(0, HalfWidth)
           THEN ClampedTo(MovedItem.x, HalfWidth, lastOp.args[2])
           ELSE MovedItem.x = Neg(HalfWidth)
        /\ IF Le(0, HalfDepth)
           THEN ClampedTo(MovedItem.z, HalfDepth, lastOp.args[3])
           ELSE MovedItem.z = Neg(HalfDepth)

\* A moveItem asked for an x beyond the edge margin and for a z inside it.
C3_Witness ==
    /\ MovedNumeric
    /\ Gt(HalfWidth, 0)
    /\ Gt(lastOp.args[2], HalfWidth)
    /\ MovedItem.x = HalfWidth
    /\ Le(Neg(HalfDepth), lastOp.args[3])
    /\ Le(lastOp.args[3], HalfDepth)
    /\ MovedItem.z = lastOp.args[3]

\* The panel's value v is not a number or is not greater than 0.
Rejected(v) == isNaN(v) \/ v <= 0

Positive(v) == ~isNaN(v) /\ v > 0

\* One attribute of pontoon 0 across an edit: kept when the submitted value
\* is rejected, and the submitted value otherwise.
EditedTo(after, before, submitted) ==
    after = IF Rejected(submitted) THEN before ELSE submitted

\* C4: an edit of the panel rejects width, height, depth and weight each on
\* its own when the submitted value is not a number or not greater than 0,
\* keeping the attribute's value; so every pontoon always has positive
\* width, height, depth and weight, and a draft that is positive.
C4_GeometryStaysPositive ==
    /\ [](\A i \in 1..Len(barge.floats) :
            /\ Positive(barge.floats[i].width)
            /\ Positive(barge.floats[i].height)
            /\ Positive(barge.floats[i].depth)
            /\ Positive(barge.floats[i].weight)
            /\ Positive(calculateDraft(barge.floats[i])))
    /\ [][lastOp'.op = "edit" =>
            LET form == lastOp'.args[1]
                before == barge.floats[1]
                after == barge'.floats[1]
            IN  /\ EditedTo(after.width, before.width, form.floatLength)
                /\ EditedTo(after.depth, before.depth, form.floatWidth)
                /\ EditedTo(after.height, before.height, form.floatHeight)
                /\ EditedTo(after.weight, before.weight, form.floatWeight)]_vars

\* An edit that rejected the width (not a number) and the weight (0) and
\* accepted the depth.
C4_Witness ==
    /\ lastOp.op = "edit"
    /\ isNaN(lastOp.args[1].floatLength)
    /\ lastOp.args[1].floatWeight = 0
    /\ barge.floats[1].depth = lastOp.args[1].floatWidth
    /\ barge.floats[1].depth # Num(10)
    /\ barge.floats[1].width = Num(20)
    /\ barge.floats[1].weight = Num(20000)

\* C5: pontoons tile edge to edge in insertion order: a pontoon added after
\* another rests half of each width further along x and at the same z, and
\* the first pontoon rests at x = 0, z = 0.
C5_EdgeToEdge ==
    /\ [](barge.floats[1].restPosition.x = 0 /\ barge.floats[1].restPosition.z = 0)
    /\ [][lastOp'.op = "addFloat" =>
            LET n == Len(barge.floats)
                last == barge.floats[n]
                new == barge'.floats[n + 1]
            IN  /\ Sub(new.restPosition.x, last.restPosition.x)
                     = Add(Div(last.width, Num(2)), Div(new.width, Num(2)))
                /\ new.restPosition.z = last.restPosition.z]_vars

\* The sum of pontoon i's coordinate times its footprint over i = 1..n.
RECURSIVE Moment(_, _, _)
Moment(b, axis, n) ==
    IF n = 0 THEN 0
    ELSE Add(Moment(b, axis, n - 1),
             Mul(b.floats[n].position[axis],
                 Mul(b.floats[n].width, b.floats[n].depth)))

\* The area-weighted centroid of the pontoons where they now are.
Centroid(b) ==
    Vector3(Div(Moment(b, "x", Len(b.floats)), calculateArea(b)),
            0,
            Div(Moment(b, "z", Len(b.floats)), calculateArea(b)))

\* C6: after every completed operation the center of flotation is the
\* area-weighted centroid of the pontoons as they then stand, with y = 0.
C6_CenterIsCentroid == barge.centerFlotation = Centroid(barge)

\* C7: every pontoon's rest position has y = -draft + height/2 for the
\* pontoon's current width, depth, height and weight.
C7_RestAtDraft ==
    \A i \in 1..Len(barge.floats) :
        barge.floats[i].restPosition.y =
            Add(Neg(calculateDraft(barge.floats[i])),
                Div(barge.floats[i].height, Num(2)))

\* C8: tilt carries no state of its own: right after every update(),
\* tiltZ = ((item0.x - center.x) / 10) * 0.05 and
\* tiltX = -((item0.z - center.z) / 5) * 0.05 for item 0 and the center of
\* flotation of that same state.
C8_TiltFromItemZero ==
    Updated =>
        /\ barge.tiltZ =
              Mul(Div(Sub(barge.items[1].position.x, barge.centerFlotation.x),
                      Num(10)), Dec(5, 2))
        /\ barge.tiltX =
              Neg(Mul(Div(Sub(barge.items[1].position.z, barge.centerFlotation.z),
                          Num(5)), Dec(5, 2)))

\* A frame that ran update() on a barge that had drifted: the center of
\* flotation is off the origin and both tilts are nonzero numbers.
C8_Witness ==
    /\ lastOp.op = "update"
    /\ Numeric(barge)
    /\ barge.centerFlotation.x # 0
    /\ barge.tiltX # 0
    /\ barge.tiltZ # 0

\* moveItem(0, 10, 0) has just run on the freshly constructed barge.
FreshMoveToTen ==
    /\ steps = 1
    /\ lastOp = Op("moveItem", << 0, Num(10), Num(0) >>)

\* C9 as claimed: on the fresh single 20 x 10 pontoon, moveItem(0, 10, 0)
\* yields tiltZ = 0.05 and tiltX = 0.
C9_TiltAtTen ==
    FreshMoveToTen => barge.tiltZ = Dec(5, 2) /\ barge.tiltX = 0

\* C9 as amended: moveItem(0, 10, 0) stores x = 9, the clamp's edge, and
\* yields tiltZ = (9 / 10) * 0.05 and tiltX = 0.
C9_TiltAtClampedNine ==
    FreshMoveToTen =>
        /\ barge.items[1].position.x = Num(9)
        /\ barge.tiltZ = Mul(Div(Num(9), Num(10)), Dec(5, 2))
        /\ barge.tiltX = 0

C9_Witness ==
    /\ FreshMoveToTen
    /\ barge.floats[1].width = Num(20)
    /\ barge.floats[1].depth = Num(10)
    /\ Len(barge.floats) = 1
    /\ barge.tiltZ > 0

\* C10: only item 0 influences tilt: addItem() and moveItem(i, x, z) with
\* i >= 1 leave both tilts and every pontoon's position and rotation as
\* they were before the call.
C10_OtherItemsLeaveTilt ==
    [][(\/ lastOp'.op = "addItem"
        \/ lastOp'.op = "moveItem" /\ lastOp'.args[1] >= 1) =>
            /\ barge'.tiltX = barge.tiltX
            /\ barge'.tiltZ = barge.tiltZ
            /\ barge'.floats = barge.floats]_vars

\* Every pontoon's and every item's position.
Positions(b) ==
    << [i \in 1..Len(b.floats) |-> b.floats[i].position],
       [i \in 1..Len(b.items) |-> b.items[i].position] >>

\* The barge is level: item 0 stands exactly over the center of flotation, so
\* that calculateTilt() computes tiltX = tiltZ = 0 without any rounding.
Level(b) ==
    LET tilted == calculateTilt(b)
    IN  /\ b.items[1].position.x = b.centerFlotation.x
        /\ b.items[1].position.z = b.centerFlotation.z
        /\ tilted.tiltX = 0
        /\ tilted.tiltZ = 0

\* C11: with tiltX = tiltZ = 0 the two-stage rotation is the identity: an
\* update() that computes both tilts as 0 leaves every pontoon's and every
\* item's position unchanged, between handlers and inside the panel's
\* handler, where update() runs on the pontoon as the panel has just
\* written it.
C11_ZeroTiltIsIdentity ==
    /\ [](Level(calculateCenterFlotation(barge)) =>
              Positions(update(barge)) = Positions(barge))
    /\ [][lastOp'.op = "edit" =>
            LET written == writeFloatProperties(barge, lastOp'.args[1])
            IN  Level(calculateCenterFlotation(written)) =>
                    Positions(barge') = Positions(written)]_vars

\* The Y component of the pontoon rotation formula of applyTiltToFloats
\* (first about the Z-tilt axis on X/Y, then about the X-tilt axis on Y/Z)
\* applied to the point p, with the tilts of b.
PontoonRotationY(b, p) ==
    LET cosX == MathCos(Neg(b.tiltX))
        sinX == MathSin(Neg(b.tiltX))
        cosZ == MathCos(Neg(b.tiltZ))
        sinZ == MathSin(Neg(b.tiltZ))
        tempY == Add(Mul(p.x, sinZ), Mul(p.y, cosZ))
        tempZ == p.z
    IN  Sub(Mul(tempY, cosX), Mul(tempZ, sinX))

\* The vertical position the pontoon rotation gives an item standing at
\* (x, z): center.y + the rotated Y of its surface point + item.height/2.
PontoonOrderY(b, item) ==
    LET float == b.floats[1]
        surfaceY == Add(float.restPosition.y, Div(float.height, Num(2)))
        p == Vector3(Sub(item.position.x, b.centerFlotation.x),
                     Sub(surfaceY, b.centerFlotation.y),
                     Sub(item.position.z, b.centerFlotation.z))
    IN  Add(Add(b.centerFlotation.y, PontoonRotationY(b, p)),
            Div(ItemHeight, Num(2)))

\* C12: updateItemPositions rotates each item's surface point as
\* applyTiltToFloats rotates the pontoons, Z-tilt axis first and X-tilt axis
\* second: once update() has run on numeric values, every item's vertical
\* position is, within a hundredth, center.y + the Y component of the pontoon
\* rotation of (item.x - center.x, pontoon 0's rest top surface - center.y,
\* item.z - center.z) + item.height/2.
C12_ItemsRotateAsPontoons ==
    Updated /\ Numeric(barge) =>
        \A i \in 1..Len(barge.items) :
            Le(Abs(Sub(barge.items[i].position.y,
                       PontoonOrderY(barge, barge.items[i]))),
               Dec(1, 2))

\* The step is moveItem on the existing item number i (counted from 1).
MovesItem(i) ==
    /\ lastOp'.op = "moveItem"
    /\ lastOp'.args[1] = i - 1

\* C13: an item's horizontal position is changed only by moveItem on that
\* item. Every step keeps every item; moveItem(i, x, z) leaves item i at x
\* and z clamped to the pontoon's half extents less 1; every other step
\* (update(), addFloat, addItem, a panel edit, moveItem on another index)
\* leaves the item's x and z as they were.
C13_OnlyMoveItemMovesItems ==
    [][/\ Len(barge'.items) >= Len(barge.items)
       /\ \A i \in 1..Len(barge.items) :
            IF MovesItem(i)
            THEN /\ barge'.items[i].position.x =
                        MathMax(Neg(HalfWidth), MathMin(HalfWidth, lastOp'.args[2]))
                 /\ barge'.items[i].position.z =
                        MathMax(Neg(HalfDepth), MathMin(HalfDepth, lastOp'.args[3]))
            ELSE /\ barge'.items[i].position.x = barge.items[i].position.x
                 /\ barge'.items[i].position.z = barge.items[i].position.z]_vars

\* update() has run on a tilted barge whose item 0 an earlier moveItem put at
\* (3, 2), and the item is still there.
C13_Witness ==
    /\ lastOp.op = "update"
    /\ steps >= 2
    /\ barge.items[1].position.x = Num(3)
    /\ barge.items[1].position.z = Num(2)
    /\ barge.tiltX # 0
    /\ barge.tiltZ # 0
    /\ barge.floats[1].position # barge.floats[1].restPosition

\* The item addItem() has just appended.
AddedItem == barge.items[Len(barge.items)]

\* C14: addItem(), in any reachable state, creates the item at the center
\* of flotation's x and z, with y = pontoon 0's rest top surface
\* (rest y + height/2) + item.height/2, whatever pontoon 0's current tilted
\* position is. (addItem changes neither the center nor any pontoon, so the
\* state after it shows what it read.)
C14_NewItemOnRestSurface ==
    lastOp.op = "addItem" =>
        AddedItem.position =
            Vector3(barge.centerFlotation.x,
                    Add(Add(barge.floats[1].restPosition.y,
                            Div(barge.floats[1].height, Num(2))),
                        Div(ItemHeight, Num(2))),
                    barge.centerFlotation.z)

\* C15: pontoon identifiers are fresh and strictly increasing. In every
\* reachable state the ids increase strictly with the position in the
\* sequence (so they are pairwise distinct) and nextFloatId is greater than
\* every id in the sequence; and no step shrinks the sequence or changes the
\* id of a pontoon already in it.
C15_FreshIncreasingIds ==
    /\ [](/\ \A i, j \in 1..Len(barge.floats) :
                i < j => barge.floats[i].id < barge.floats[j].id
          /\ \A i \in 1..Len(barge.floats) :
                barge.floats[i].id < barge.nextFloatId)
    /\ [][/\ Len(barge'.floats) >= Len(barge.floats)
          /\ \A i \in 1..Len(barge.floats) :
                barge'.floats[i].id = barge.floats[i].id]_vars

\* addFloat() has just appended a pontoon to a barge that already had one.
C15_Witness ==
    /\ lastOp.op = "addFloat"
    /\ Len(barge.floats) >= 2
    /\ barge.floats[Len(barge.floats)].id = barge.nextFloatId - 1

====
